---- MODULE Spec2Model ----
(***************************************************************************)
(* Model of sprout's authentication module (sprout/authentication.cpp):   *)
(* the on_rx_request handler authenticate_rx_request, the credential      *)
(* lookup callback user_lookup and the challenge builder create_challenge,*)
(* run by several transport threads over one shared AV store; and of      *)
(* SynchronizedFSM::send_input (sprout/quiescing_manager.cpp), called by  *)
(* several threads and from inside process_input.                         *)
(***************************************************************************)
EXTENDS Integers, Sequences, FiniteSets, TLC

VARIABLES
  av_store,     \* AvStore contents: <<impi, nonce>> -> authentication vector
  analytics,    \* the AnalyticsLogger given to init_authentication, or NULL
  pc,           \* per thread: position inside authenticate_rx_request
  rdata,        \* per thread: the request being handled
  status,       \* per thread: local pj_status_t status
  sc,           \* per thread: local int sc
  hss_rsp,      \* per thread: what hss->get_auth_vector returned
  tdata,        \* per thread: response built for the request (empty: none); it
                \* is sent unless status holds the error of a failed send
  ret,          \* per thread: return value of authenticate_rx_request
  calls,        \* per thread: collaborator calls made for the current request
  nreq,         \* number of requests received so far
  consumed,     \* history: keys whose stored vector has already verified a response
  verified_key, \* history, per thread: key of the stored vector that verified its request
  rivals,       \* history, per thread: threads that held the same request, not yet
                \* verified, when this thread's request was verified
  outstanding,  \* history: challenges emitted and not yet evicted/superseded
  lock,         \* SynchronizedFSM::_lock: the thread holding the mutex, or NULL
  input_q,      \* SynchronizedFSM::_input_q
  running,      \* SynchronizedFSM::_running
  stack,        \* per thread: its frames of send_input, outermost first
  nsent,        \* number of send_input calls made so far
  enqueued,     \* history: the inputs pushed on _input_q, in order
  processed,    \* history: the inputs handed to process_input, in order
  qm_state,     \* QuiescingManager::_state
  edge_proxy,   \* QuiescingManager::_edge_proxy
  ndebug,       \* whether the build defines NDEBUG (assert compiled out)
  aborted,      \* whether a failed assert has aborted the process
  inputs,       \* the input value passed to each send_input call, by call number
  qm_pc,        \* "body" while process_input's body runs, else "idle"
  todo,         \* the statements of the running process_input still to execute
  entered,      \* _state and input at the entry of the latest process_input
  invoked,      \* the member functions the latest process_input has called
  conn_tracker, \* history: the calls made on _conn_tracker, in order
  constructed   \* history: the value _state held when the constructor returned

auth_vars == <<av_store, analytics, pc, rdata, status, sc, hss_rsp, tdata, ret,
               calls, nreq, consumed, verified_key, rivals, outstanding>>

fsm_vars == <<lock, input_q, running, stack, nsent, enqueued, processed>>

qm_vars == <<qm_state, edge_proxy, ndebug, aborted, inputs, qm_pc, todo, entered,
             invoked, conn_tracker, constructed>>

vars == <<av_store, analytics, pc, rdata, status, sc, hss_rsp, tdata, ret,
          calls, nreq, consumed, verified_key, rivals, outstanding,
          lock, input_q, running, stack, nsent, enqueued, processed,
          qm_state, edge_proxy, ndebug, aborted, inputs, qm_pc, todo, entered,
          invoked, conn_tracker, constructed>>

(***************************************************************************)
(* Bounds                                                                  *)
(***************************************************************************)
MaxRequests == 3

\* Number of send_input calls made in all
MaxInputs == 3

Threads == {"t1", "t2"}

(***************************************************************************)
(* Constants of the program and of PJSIP                                   *)
(***************************************************************************)
STR_DIGEST == "Digest"
STR_MD5 == "MD5"
STR_AKAV1_MD5 == "AKAv1-MD5"
STR_AUTH == "auth"
STR_CK == "ck"
STR_IK == "ik"
STR_INTEGRITY_PROTECTED == "integrity-protected"
STR_YES == "yes"
STR_TLS_YES == "tls-yes"
STR_IP_ASSOC_YES == "ip-assoc-yes"
STR_AUTN == "auts"

PJSIP_SC_UNAUTHORIZED == 401
PJSIP_SC_FORBIDDEN == 403
PJSIP_SC_INTERNAL_SERVER_ERROR == 500
PJSIP_SC_OK == 200

PJ_SUCCESS == "PJ_SUCCESS"
PJSIP_EAUTHNOAUTH == "PJSIP_EAUTHNOAUTH"
PJSIP_EAUTHACCNOTFOUND == "PJSIP_EAUTHACCNOTFOUND"
PJSIP_EAUTHINVALIDDIGEST == "PJSIP_EAUTHINVALIDDIGEST"

NULL == "NULL"

PJ_TRUE == "PJ_TRUE"
PJ_FALSE == "PJ_FALSE"
NoReturn == "none"

PJSIP_REGISTER_METHOD == "REGISTER"
PJSIP_INVITE_METHOD == "INVITE"
PJSIP_ACK_METHOD == "ACK"
PJSIP_CANCEL_METHOD == "CANCEL"

PJSIP_CRED_DATA_PLAIN_PASSWD == "PLAIN_PASSWD"
PJSIP_CRED_DATA_DIGEST == "DIGEST"

\* auth_srv.realm, set by init_authentication from realm_name
ServerRealm == "home.example"

(***************************************************************************)
(* Strings: case folding as done by pj_stricmp                             *)
(***************************************************************************)
UpperCase == <<"A", "B", "C", "D", "E", "F", "G", "H", "I", "J", "K", "L", "M",
               "N", "O", "P", "Q", "R", "S", "T", "U", "V", "W", "X", "Y", "Z">>

LowerCase == <<"a", "b", "c", "d", "e", "f", "g", "h", "i", "j", "k", "l", "m",
               "n", "o", "p", "q", "r", "s", "t", "u", "v", "w", "x", "y", "z">>

\* Upper-case letter -> its lower-case letter
FoldCase == [c \in {UpperCase[i] : i \in 1..26} |->
               LowerCase[CHOOSE i \in 1..26 : UpperCase[i] = c]]

\* pj_tolower of one character: an upper-case letter becomes its lower-case
\* letter, any other character is unchanged
pj_tolower(c) == IF c \in DOMAIN FoldCase THEN FoldCase[c] ELSE c

\* The string with every character folded to lower case
RECURSIVE ToLower(_)
ToLower(s) ==
  IF Len(s) = 0 THEN s
  ELSE pj_tolower(SubSeq(s, 1, 1)) \o ToLower(SubSeq(s, 2, Len(s)))

\* 0 when the two strings are equal ignoring case, non-zero otherwise
pj_stricmp(a, b) ==
  IF a = b THEN 0
  ELSE IF Len(a) # Len(b) THEN 1
  ELSE IF ToLower(a) = ToLower(b) THEN 0 ELSE 1

\* pjsip_param_find: index of the first parameter whose name matches
\* case-insensitively, 0 (NULL) when there is none
pjsip_param_find(params, name) ==
  LET hits == {i \in 1..Len(params) : pj_stricmp(params[i].name, name) = 0}
  IN IF hits = {} THEN 0 ELSE CHOOSE i \in hits : \A j \in hits : i <= j

(***************************************************************************)
(* Digest computation (pjsip_auth_create_digest): MD5 is a constructor, so *)
(* that two digests are equal exactly when their inputs are                *)
(***************************************************************************)
MD5(x) == <<"MD5", x>>

pjsip_auth_create_digest(nonce, method, cred_info) ==
  LET ha1 == IF cred_info.data_type = PJSIP_CRED_DATA_PLAIN_PASSWD
             THEN MD5(<<cred_info.username, cred_info.realm, cred_info.data>>)
             ELSE cred_info.data
  IN MD5(<<ha1, nonce, method>>)

(***************************************************************************)
(* URIs and identities (PJUtils)                                           *)
(***************************************************************************)
Uri(user) == <<"sip:", user>>

public_id_from_uri(uri) == uri

default_private_id_from_uri(uri) == uri[2]

aor_from_uri(uri) == uri

(***************************************************************************)
(* Authentication vectors, as the JSON objects the HSS returns             *)
(***************************************************************************)
DigestAV(ha1, qop) == [digest |-> [ha1 |-> ha1, qop |-> qop, realm |-> ServerRealm]]

AkaAV(challenge, response, ck, ik) ==
  [aka |-> [challenge |-> challenge, response |-> response,
            cryptkey |-> ck, integritykey |-> ik]]

\* A JSON object with both an "aka" and a "digest" member
BothAV(ha1, qop, challenge, response, ck, ik) ==
  [digest |-> DigestAV(ha1, qop).digest,
   aka |-> AkaAV(challenge, response, ck, ik).aka]

isMember(av, name) == name \in DOMAIN av

Ha1Of(user, passwd) == MD5(<<user, ServerRealm, passwd>>)

\* The vectors the HSS may hand out
HssVectors ==
  { DigestAV(Ha1Of("alice", "pw1"), "auth-int"),
    AkaAV("abc123", "xres1", "ck1", "ik1") }

\* The vectors of an HSS that may also return one with both members
HssVectorsOrBoth ==
  HssVectors \cup
    { BothAV(Ha1Of("alice", "pw1"), "auth-int", "abc123", "xres1", "ck1", "ik1") }

\* Strings pj_create_random_string may produce
RandomStrings == {"rnd1", "rnd2"}

\* Two successive strings drawn from the generator
RandomDraws == RandomStrings \X RandomStrings

(***************************************************************************)
(* AvStore: keyed store of issued vectors.  get_av is a non-consuming      *)
(* read; entries leave the store only by expiry.                           *)
(***************************************************************************)
AvKey(impi, nonce) == <<impi, nonce>>

\* Json::Value* get_av(impi, nonce): <<>> is NULL
AvStore_get_av(store, impi, nonce) ==
  IF AvKey(impi, nonce) \in DOMAIN store
  THEN <<store[AvKey(impi, nonce)]>>
  ELSE <<>>

AvStore_set_av(store, impi, nonce, av) ==
  [k \in DOMAIN store \cup {AvKey(impi, nonce)} |->
     IF k = AvKey(impi, nonce) THEN av ELSE store[k]]

AvStore_expire(store, key) ==
  [k \in DOMAIN store \ {key} |-> store[k]]

(***************************************************************************)
(* Requests: method, To URI and the Authorization headers of the message   *)
(***************************************************************************)
AuthHdr(username, realm, nonce, response, other_param) ==
  [username |-> username, realm |-> realm, nonce |-> nonce,
   response |-> response, other_param |-> other_param]

Request(method, to, auth) == [method |-> method, to |-> to, auth |-> auth]

Param(name, value) == [name |-> name, value |-> value]

\* pjsip_msg_find_hdr(msg, PJSIP_H_AUTHORIZATION, NULL): <<>> is NULL
find_auth_hdr(msg) == IF Len(msg.auth) = 0 THEN <<>> ELSE <<msg.auth[1]>>

NoCred == [realm |-> "", scheme |-> "", username |-> "", data_type |-> "", data |-> <<>>]

(***************************************************************************)
(* user_lookup: the lookup2 callback of the PJSIP authentication server    *)
(***************************************************************************)
\* Variant of user_lookup that finds a vector by nonce alone, whatever
\* private identity it was issued to
user_lookup_by_nonce(store, param) ==
  LET nonce == find_auth_hdr(param.rdata)[1].nonce
      keys  == {k \in DOMAIN store : k[2] = nonce}
      base  == [NoCred EXCEPT !.realm = param.realm, !.scheme = "digest",
                              !.username = param.acc_name]
  IN IF keys # {}
     THEN LET k == CHOOSE x \in keys : TRUE
          IN IF isMember(store[k], "aka")
             THEN [status |-> PJ_SUCCESS, key |-> k, store |-> store,
                   cred_info |-> [base EXCEPT !.data_type = PJSIP_CRED_DATA_PLAIN_PASSWD,
                                              !.data = store[k].aka.response]]
             ELSE [status |-> PJ_SUCCESS, key |-> k, store |-> store,
                   cred_info |-> [base EXCEPT !.data_type = PJSIP_CRED_DATA_DIGEST,
                                              !.data = store[k].digest.ha1]]
     ELSE [status |-> PJSIP_EAUTHACCNOTFOUND, key |-> AvKey(param.acc_name, nonce),
           store |-> store, cred_info |-> NoCred]

\* Variant of user_lookup whose read removes the entry from the store
user_lookup_evict_on_read(store, param) ==
  LET impi  == param.acc_name
      nonce == find_auth_hdr(param.rdata)[1].nonce
      av    == AvStore_get_av(store, impi, nonce)
      left  == AvStore_expire(store, AvKey(impi, nonce))
      base  == [NoCred EXCEPT !.realm = param.realm, !.scheme = "digest",
                              !.username = param.acc_name]
  IN IF av # <<>>
     THEN IF isMember(av[1], "aka")
          THEN [status |-> PJ_SUCCESS, key |-> AvKey(impi, nonce), store |-> left,
                cred_info |-> [base EXCEPT !.data_type = PJSIP_CRED_DATA_PLAIN_PASSWD,
                                           !.data = av[1].aka.response]]
          ELSE IF isMember(av[1], "digest")
          THEN [status |-> PJ_SUCCESS, key |-> AvKey(impi, nonce), store |-> left,
                cred_info |-> [base EXCEPT !.data_type = PJSIP_CRED_DATA_DIGEST,
                                           !.data = av[1].digest.ha1]]
          ELSE [status |-> PJSIP_EAUTHACCNOTFOUND, key |-> AvKey(impi, nonce),
                store |-> left, cred_info |-> base]
     ELSE [status |-> PJSIP_EAUTHACCNOTFOUND, key |-> AvKey(impi, nonce),
           store |-> store, cred_info |-> NoCred]

\* status: the return value; cred_info: the credential filled in; key: the
\* key read; store: the store after the call (get_av only reads, and
\* "delete av" frees the copy get_av returned)

user_lookup(store, param) ==
  LET impi  == param.acc_name
      nonce == find_auth_hdr(param.rdata)[1].nonce
      av    == AvStore_get_av(store, impi, nonce)
      base  == [NoCred EXCEPT !.realm = param.realm, !.scheme = "digest",
                              !.username = param.acc_name]
  IN IF av # <<>>
     THEN IF isMember(av[1], "aka")
          THEN [status |-> PJ_SUCCESS, key |-> AvKey(impi, nonce), store |-> store,
                cred_info |-> [base EXCEPT !.data_type = PJSIP_CRED_DATA_PLAIN_PASSWD,
                                           !.data = av[1].aka.response]]
          ELSE IF isMember(av[1], "digest")
          THEN [status |-> PJ_SUCCESS, key |-> AvKey(impi, nonce), store |-> store,
                cred_info |-> [base EXCEPT !.data_type = PJSIP_CRED_DATA_DIGEST,
                                           !.data = av[1].digest.ha1]]
          ELSE [status |-> PJSIP_EAUTHACCNOTFOUND, key |-> AvKey(impi, nonce),
                store |-> store, cred_info |-> base]
     ELSE [status |-> PJSIP_EAUTHACCNOTFOUND, key |-> AvKey(impi, nonce),
           store |-> store, cred_info |-> NoCred]

\* pjsip_auth_verify: recompute the digest from the credential and compare
\* it with the response of the header
pjsip_auth_verify(hdr, method, cred_info) ==
  IF pjsip_auth_create_digest(hdr.nonce, method, cred_info) = hdr.response
  THEN PJ_SUCCESS
  ELSE PJSIP_EAUTHINVALIDDIGEST

\* pjsip_auth_srv_verify(&auth_srv, rdata, &sc): find the Authorization
\* header for the server's realm, look the account up, verify the digest.
\* lookups: the keys user_lookup read from the store.
pjsip_auth_srv_verify(store, msg) ==
  LET mine == {i \in 1..Len(msg.auth) : pj_stricmp(msg.auth[i].realm, ServerRealm) = 0}
  IN IF mine = {}
     THEN [status |-> PJSIP_EAUTHNOAUTH, sc |-> PJSIP_SC_UNAUTHORIZED, lookups |-> <<>>,
           store |-> store]
     ELSE LET h_auth == msg.auth[CHOOSE i \in mine : \A j \in mine : i <= j]
              lk == user_lookup(store, [acc_name |-> h_auth.username,
                                        realm |-> ServerRealm, rdata |-> msg])
          IN IF lk.status # PJ_SUCCESS
             THEN [status |-> lk.status, sc |-> PJSIP_SC_FORBIDDEN, lookups |-> <<lk.key>>,
                   store |-> lk.store]
             ELSE LET st == pjsip_auth_verify(h_auth, msg.method, lk.cred_info)
                  IN [status |-> st,
                      sc |-> IF st = PJ_SUCCESS THEN PJSIP_SC_OK ELSE PJSIP_SC_FORBIDDEN,
                      lookups |-> <<lk.key>>, store |-> lk.store]

(***************************************************************************)
(* create_challenge                                                        *)
(***************************************************************************)
\* The private identity: from the Authorization header when it carries a
\* non-empty username, else defaulted from the To URI
\* Variant of challenge_impi that always derives the default identity
challenge_impi_default(auth_hdr, msg) == default_private_id_from_uri(msg.to)

challenge_impi(auth_hdr, msg) ==
  IF auth_hdr # <<>> /\ auth_hdr[1].username # ""
  THEN auth_hdr[1].username
  ELSE default_private_id_from_uri(msg.to)

\* The loop over credential.digest.other_param: every parameter is visited,
\* each match assigns autn
\* Variant of the loop that stops at the first match
scan_autn_first(params, i, autn) ==
  LET hits == {j \in i..Len(params) : pj_stricmp(params[j].name, STR_AUTN) = 0}
  IN IF hits = {} THEN autn
     ELSE params[CHOOSE j \in hits : \A k \in hits : j <= k].value

RECURSIVE scan_autn(_, _, _)
scan_autn(params, i, autn) ==
  IF i > Len(params)
  THEN autn
  ELSE scan_autn(params, i + 1,
                 IF pj_stricmp(params[i].name, STR_AUTN) = 0
                 THEN params[i].value
                 ELSE autn)

challenge_autn(auth_hdr) ==
  IF auth_hdr # <<>> THEN scan_autn(auth_hdr[1].other_param, 1, "") ELSE ""

\* Arguments of hss->get_auth_vector(impi, impu, autn, trail)
hss_arguments(auth_hdr, msg) ==
  [impi |-> challenge_impi(auth_hdr, msg),
   impu |-> public_id_from_uri(msg.to),
   autn |-> challenge_autn(auth_hdr)]

\* pjsip_www_authenticate_hdr_create
www_authenticate_hdr_create ==
  [scheme |-> "", realm |-> "", algorithm |-> "", nonce |-> "", opaque |-> "",
   qop |-> "", stale |-> FALSE, other_param |-> <<>>]

\* The WWW-Authenticate header built from a vector, and the nonce the
\* vector is stored under.  random: the successive results of
\* pj_create_random_string.
\* Variant of build_challenge that stores a Digest vector under the second
\* random string (the opaque) instead of the nonce of the header
build_challenge_opaque_key(av, random) ==
  LET hdr == [www_authenticate_hdr_create EXCEPT !.scheme = STR_DIGEST,
                                                 !.realm = ServerRealm]
  IN IF isMember(av, "aka")
     THEN [nonce |-> av.aka.challenge,
           hdr |-> [hdr EXCEPT !.algorithm = STR_AKAV1_MD5,
                               !.nonce = av.aka.challenge,
                               !.opaque = random[1],
                               !.qop = STR_AUTH,
                               !.other_param = <<Param(STR_CK, av.aka.cryptkey),
                                                 Param(STR_IK, av.aka.integritykey)>>]]
     ELSE [nonce |-> random[2],
           hdr |-> [hdr EXCEPT !.algorithm = STR_MD5,
                               !.nonce = random[1],
                               !.opaque = random[2],
                               !.qop = av.digest.qop]]

\* Variant of build_challenge that mints the nonce of an AKA challenge too
build_challenge_aka_minted(av, random) ==
  LET hdr == [www_authenticate_hdr_create EXCEPT !.scheme = STR_DIGEST,
                                                 !.realm = ServerRealm]
  IN IF isMember(av, "aka")
     THEN [nonce |-> random[1],
           hdr |-> [hdr EXCEPT !.algorithm = STR_AKAV1_MD5,
                               !.nonce = random[1],
                               !.opaque = random[2],
                               !.qop = STR_AUTH,
                               !.other_param = <<Param(STR_CK, av.aka.cryptkey),
                                                 Param(STR_IK, av.aka.integritykey)>>]]
     ELSE [nonce |-> random[1],
           hdr |-> [hdr EXCEPT !.algorithm = STR_MD5,
                               !.nonce = random[1],
                               !.opaque = random[2],
                               !.qop = av.digest.qop]]

build_challenge(av, random) ==
  LET hdr == [www_authenticate_hdr_create EXCEPT !.scheme = STR_DIGEST,
                                                 !.realm = ServerRealm]
  IN IF isMember(av, "aka")
     THEN [nonce |-> av.aka.challenge,
           hdr |-> [hdr EXCEPT !.algorithm = STR_AKAV1_MD5,
                               !.nonce = av.aka.challenge,
                               !.opaque = random[1],
                               !.qop = STR_AUTH,
                               !.stale = FALSE,
                               !.other_param = <<Param(STR_CK, av.aka.cryptkey),
                                                 Param(STR_IK, av.aka.integritykey)>>]]
     ELSE [nonce |-> random[1],
           hdr |-> [hdr EXCEPT !.algorithm = STR_MD5,
                               !.nonce = random[1],
                               !.opaque = random[2],
                               !.qop = av.digest.qop,
                               !.stale = FALSE]]

(***************************************************************************)
(* authenticate_rx_request: routing decisions                              *)
(***************************************************************************)
\* Variant of integrity_protected that compares the value case-sensitively
integrity_protected_exact(auth_hdr) ==
  /\ auth_hdr # <<>>
  /\ LET i == pjsip_param_find(auth_hdr[1].other_param, STR_INTEGRITY_PROTECTED)
     IN /\ i # 0
        /\ auth_hdr[1].other_param[i].value \in {STR_YES, STR_TLS_YES, STR_IP_ASSOC_YES}

\* Has the request already been integrity protected?
integrity_protected(auth_hdr) ==
  /\ auth_hdr # <<>>
  /\ LET i == pjsip_param_find(auth_hdr[1].other_param, STR_INTEGRITY_PROTECTED)
     IN /\ i # 0
        /\ \/ pj_stricmp(auth_hdr[1].other_param[i].value, STR_YES) = 0
           \/ pj_stricmp(auth_hdr[1].other_param[i].value, STR_TLS_YES) = 0
           \/ pj_stricmp(auth_hdr[1].other_param[i].value, STR_IP_ASSOC_YES) = 0

\* Variant of rx_route that authenticates requests of every method
rx_route_every_method(msg) ==
  IF integrity_protected(find_auth_hdr(msg))
  THEN "pass"
  ELSE IF find_auth_hdr(msg) # <<>> /\ find_auth_hdr(msg)[1].response # <<>>
  THEN "verify"
  ELSE "absorb"

\* Variant of rx_route that verifies whenever there is a credential header
rx_route_verify_any_header(msg) ==
  IF msg.method # PJSIP_REGISTER_METHOD
  THEN "pass"
  ELSE IF integrity_protected(find_auth_hdr(msg))
  THEN "pass"
  ELSE IF find_auth_hdr(msg) # <<>>
  THEN "verify"
  ELSE "absorb"

\* Entry of the handler: "pass" (return PJ_FALSE), "verify" (call
\* pjsip_auth_srv_verify) or "absorb" (fall through to the response code)
rx_route(msg) ==
  IF msg.method # PJSIP_REGISTER_METHOD
  THEN "pass"
  ELSE IF integrity_protected(find_auth_hdr(msg))
  THEN "pass"
  ELSE IF find_auth_hdr(msg) # <<>> /\ find_auth_hdr(msg)[1].response # <<>>
  THEN "verify"
  ELSE "absorb"

\* Variant of absorb_route that challenges after a failed verification too
absorb_route_rechallenge(method, st) ==
  IF method = PJSIP_ACK_METHOD THEN "discard"
  ELSE IF method = PJSIP_CANCEL_METHOD THEN "reject_cancel"
  ELSE "challenge"

\* What the handler does with a request it absorbs
absorb_route(method, st) ==
  IF method = PJSIP_ACK_METHOD THEN "discard"
  ELSE IF method = PJSIP_CANCEL_METHOD THEN "reject_cancel"
  ELSE IF st = PJSIP_EAUTHNOAUTH THEN "challenge"
  ELSE "auth_failed"

\* Arguments of analytics->auth_failure(impi, aor)
\* Variant of auth_failure_args that reports the identity defaulted from
\* the To URI
auth_failure_args_default_impi(auth_hdr, msg) ==
  [impi |-> default_private_id_from_uri(msg.to), aor |-> aor_from_uri(msg.to)]

auth_failure_args(auth_hdr, msg) ==
  [impi |-> auth_hdr[1].username, aor |-> aor_from_uri(msg.to)]

Response(code, hdrs) == [code |-> code, www_authenticate |-> hdrs]

NoCalls == [hss |-> <<>>, av_get |-> <<>>, av_set |-> <<>>, auth_failure |-> <<>>]

\* Variant of create_challenge that leaves the status code alone when the
\* HSS returns no vector
create_challenge_keep_code(impi, code, av, random, store) ==
  IF av # <<>>
  THEN LET ch == build_challenge(av[1], random)
       IN [tdata |-> Response(code, <<ch.hdr>>),
           store |-> AvStore_set_av(store, impi, ch.nonce, av[1]),
           av_set |-> <<AvKey(impi, ch.nonce)>>]
  ELSE [tdata |-> Response(code, <<>>),
        store |-> store,
        av_set |-> <<>>]

\* Variant of create_challenge that builds the header and stores the
\* vector but does not add the header to the message
create_challenge_no_header(impi, code, av, random, store) ==
  IF av # <<>>
  THEN LET ch == build_challenge(av[1], random)
       IN [tdata |-> Response(code, <<>>),
           store |-> AvStore_set_av(store, impi, ch.nonce, av[1]),
           av_set |-> <<AvKey(impi, ch.nonce)>>]
  ELSE [tdata |-> Response(PJSIP_SC_FORBIDDEN, <<>>),
        store |-> store,
        av_set |-> <<>>]

\* create_challenge from the return of hss->get_auth_vector on: the
\* response (status code and challenge header), the store afterwards and
\* the keys written.  impi: the private identity computed before the call;
\* code: the status code the response was created with.
create_challenge(impi, code, av, random, store) ==
  IF av # <<>>
  THEN LET ch == build_challenge(av[1], random)
       IN [tdata |-> Response(code, <<ch.hdr>>),
           store |-> AvStore_set_av(store, impi, ch.nonce, av[1]),
           av_set |-> <<AvKey(impi, ch.nonce)>>]
  ELSE [tdata |-> Response(PJSIP_SC_FORBIDDEN, <<>>),
        store |-> store,
        av_set |-> <<>>]

(***************************************************************************)
(* Requests offered to the module                                          *)
(***************************************************************************)
\* The secrets a client may hold: a digest ha1 or an AKA response
DigestSecret(ha1) == [data_type |-> PJSIP_CRED_DATA_DIGEST, data |-> ha1]

PlainSecret(passwd) == [data_type |-> PJSIP_CRED_DATA_PLAIN_PASSWD, data |-> passwd]

\* The response a client holding the secret computes for a challenge
ClientResponse(username, realm, nonce, secret) ==
  pjsip_auth_create_digest(nonce, PJSIP_REGISTER_METHOD,
      [NoCred EXCEPT !.username = username, !.realm = realm,
                     !.data_type = secret.data_type, !.data = secret.data])

NoRequest == Request("", Uri(""), <<>>)

\* Registrations of alice: with and without credentials, answering the
\* nonces the module may have issued, with right and wrong secrets; of
\* bob; and the requests that bypass authentication
ProtoRequests ==
  { Request(PJSIP_REGISTER_METHOD, Uri("alice"), <<>>),
    Request(PJSIP_REGISTER_METHOD, Uri("alice"),
            <<AuthHdr("", ServerRealm, "", <<>>, <<>>)>>),
    Request(PJSIP_REGISTER_METHOD, Uri("bob"),
            <<AuthHdr("alice", ServerRealm, "", <<>>, <<>>)>>),
    Request(PJSIP_REGISTER_METHOD, Uri("alice"),
            <<AuthHdr("alice", ServerRealm, "rnd1",
                      ClientResponse("alice", ServerRealm, "rnd1",
                                     DigestSecret(Ha1Of("alice", "pw1"))), <<>>)>>),
    Request(PJSIP_REGISTER_METHOD, Uri("alice"),
            <<AuthHdr("alice", ServerRealm, "rnd1",
                      ClientResponse("alice", ServerRealm, "rnd1",
                                     DigestSecret(Ha1Of("alice", "pw2"))), <<>>)>>),
    Request(PJSIP_REGISTER_METHOD, Uri("alice"),
            <<AuthHdr("alice", ServerRealm, "abc123",
                      ClientResponse("alice", ServerRealm, "abc123",
                                     PlainSecret("xres1")), <<>>)>>),
    Request(PJSIP_REGISTER_METHOD, Uri("alice"),
            <<AuthHdr("bob", ServerRealm, "rnd1",
                      ClientResponse("bob", ServerRealm, "rnd1",
                                     DigestSecret(Ha1Of("alice", "pw1"))), <<>>)>>),
    Request(PJSIP_REGISTER_METHOD, Uri("alice"),
            <<AuthHdr("alice", "other.example", "rnd1",
                      ClientResponse("alice", "other.example", "rnd1",
                                     DigestSecret(Ha1Of("alice", "pw1"))), <<>>)>>),
    Request(PJSIP_REGISTER_METHOD, Uri("alice"),
            <<AuthHdr("alice", ServerRealm, "rnd1",
                      ClientResponse("alice", ServerRealm, "rnd1",
                                     DigestSecret(Ha1Of("alice", "pw1"))),
                      <<Param(STR_INTEGRITY_PROTECTED, STR_YES)>>)>>),
    Request(PJSIP_INVITE_METHOD, Uri("alice"), <<>>) }

\* Extension parameter lists of the Authorization header: the
\* integrity-protected marker and the resync token in their variants
ParamLists ==
  { <<>>,
    <<Param("integrity-protected", "yes")>>,
    <<Param("Integrity-Protected", "YES")>>,
    <<Param("integrity-protected", "tls-yes")>>,
    <<Param("INTEGRITY-PROTECTED", "Tls-Yes")>>,
    <<Param("integrity-protected", "IP-Assoc-Yes")>>,
    <<Param("integrity-protected", "no")>>,
    <<Param("integrity-protected", "tls-pending")>>,
    <<Param("integrity-protected", "no"), Param("integrity-protected", "yes")>>,
    <<Param("auts", "XYZ")>>,
    <<Param("AUTS", "XYZ")>>,
    <<Param("aUTS", "XYZ")>>,
    <<Param("auts", "X1"), Param("Auts", "X2")>>,
    <<Param("integrity-protected", "no"), Param("auts", "XYZ")>>,
    <<Param("auts", "XYZ"), Param("integrity-protected", "yes")>>,
    <<Param("cnonce", "XYZ")>> }

\* Methods that do not establish a registration
OtherMethods == {PJSIP_INVITE_METHOD, PJSIP_ACK_METHOD, PJSIP_CANCEL_METHOD}

\* Registrations whose Authorization header carries extension parameters,
\* with and without a response
HeaderRequests ==
  { Request(PJSIP_REGISTER_METHOD, Uri("alice"), <<>>),
    Request(PJSIP_INVITE_METHOD, Uri("alice"),
            <<AuthHdr("alice", ServerRealm, "rnd1", <<>>, <<Param("auts", "XYZ")>>)>>) }
  \cup { Request(m, Uri("alice"), <<>>) : m \in OtherMethods }
  \cup { Request(m, Uri("alice"),
                 <<AuthHdr("alice", ServerRealm, "rnd1",
                           ClientResponse("alice", ServerRealm, "rnd1",
                                          DigestSecret(Ha1Of("alice", pw))),
                           <<>>)>>)
         : m \in OtherMethods, pw \in {"pw1", "pw2"} }
  \cup { Request(PJSIP_REGISTER_METHOD, Uri("alice"),
                 <<AuthHdr("alice", ServerRealm, "rnd1", <<>>, ps)>>) : ps \in ParamLists }
  \cup { Request(PJSIP_REGISTER_METHOD, Uri("alice"),
                 <<AuthHdr("alice", ServerRealm, "rnd1",
                           ClientResponse("alice", ServerRealm, "rnd1",
                                          DigestSecret(Ha1Of("alice", "pw1"))), ps)>>)
         : ps \in ParamLists }

(***************************************************************************)
(* State machine                                                           *)
(***************************************************************************)
Last(q) == q[Len(q)]

\* No process_input call has been entered yet
NoEntry == [state |-> NULL, input |-> NULL]

Init ==
  /\ av_store = <<>>
  /\ analytics \in {NULL, "AnalyticsLogger"}
  /\ pc = [t \in Threads |-> "idle"]
  /\ rdata = [t \in Threads |-> NoRequest]
  /\ status = [t \in Threads |-> "unset"]
  /\ sc = [t \in Threads |-> 0]
  /\ hss_rsp = [t \in Threads |-> <<>>]
  /\ tdata = [t \in Threads |-> <<>>]
  /\ ret = [t \in Threads |-> NoReturn]
  /\ calls = [t \in Threads |-> NoCalls]
  /\ nreq = 0
  /\ consumed = {}
  /\ verified_key = [t \in Threads |-> <<>>]
  /\ rivals = [t \in Threads |-> {}]
  /\ outstanding = {}
  /\ lock = NULL
  /\ input_q = <<>>
  /\ running = FALSE
  /\ stack = [t \in Threads |-> <<>>]
  /\ nsent = 0
  /\ enqueued = <<>>
  /\ processed = <<>>
  /\ qm_state = NULL
  /\ edge_proxy = FALSE
  /\ ndebug = FALSE
  /\ aborted = FALSE
  /\ inputs = <<>>
  /\ qm_pc = "idle"
  /\ todo = <<>>
  /\ entered = NoEntry
  /\ invoked = <<>>
  /\ conn_tracker = <<>>
  /\ constructed = qm_state

\* authenticate_rx_request is entered with a request: the method and
\* integrity-protection checks, and the choice between verifying a
\* response and absorbing the request
RxRequest(t, r) ==
  /\ pc[t] \in {"idle", "done"}
  /\ nreq < MaxRequests
  /\ nreq' = nreq + 1
  /\ rdata' = [rdata EXCEPT ![t] = r]
  /\ LET route == rx_route(r)
     IN /\ pc' = [pc EXCEPT ![t] = IF route = "pass" THEN "done" ELSE route]
        /\ ret' = [ret EXCEPT ![t] = IF route = "pass" THEN PJ_FALSE ELSE NoReturn]
        /\ status' = [status EXCEPT ![t] = IF route = "pass" THEN "unset"
                                           ELSE PJSIP_EAUTHNOAUTH]
        /\ sc' = [sc EXCEPT ![t] = IF route = "pass" THEN 0
                                   ELSE PJSIP_SC_UNAUTHORIZED]
  /\ tdata' = [tdata EXCEPT ![t] = <<>>]
  /\ calls' = [calls EXCEPT ![t] = NoCalls]
  /\ hss_rsp' = [hss_rsp EXCEPT ![t] = <<>>]
  /\ verified_key' = [verified_key EXCEPT ![t] = <<>>]
  /\ rivals' = [u \in Threads |-> IF u = t THEN {} ELSE rivals[u] \ {t}]
  /\ UNCHANGED <<av_store, analytics, consumed, outstanding>>
  /\ UNCHANGED fsm_vars
  /\ UNCHANGED qm_vars

\* status = pjsip_auth_srv_verify(&auth_srv, rdata, &sc), with the one
\* read of the store made by user_lookup
VerifyResponse(t) ==
  /\ pc[t] = "verify"
  /\ LET v  == pjsip_auth_srv_verify(av_store, rdata[t])
         ok == v.status = PJ_SUCCESS
         hit == IF ok /\ v.lookups[1] \in DOMAIN av_store THEN v.lookups ELSE <<>>
     IN /\ status' = [status EXCEPT ![t] = v.status]
        /\ sc' = [sc EXCEPT ![t] = v.sc]
        /\ av_store' = v.store
        /\ calls' = [calls EXCEPT ![t].av_get = @ \o v.lookups]
        /\ pc' = [pc EXCEPT ![t] = IF ok THEN "done" ELSE "absorb"]
        /\ ret' = [ret EXCEPT ![t] = IF ok THEN PJ_FALSE ELSE @]
        /\ verified_key' = [verified_key EXCEPT ![t] = hit]
        /\ consumed' = consumed \cup {hit[i] : i \in 1..Len(hit)}
        /\ rivals' = [rivals EXCEPT ![t] =
                        IF ok
                        THEN {u \in Threads \ {t} : pc[u] = "verify" /\ rdata[u] = rdata[t]}
                        ELSE {}]
  /\ UNCHANGED <<analytics, rdata, hss_rsp, tdata, nreq, outstanding>>
  /\ UNCHANGED fsm_vars
  /\ UNCHANGED qm_vars

\* The request is absorbed: discarded, rejected, or answered with a
\* challenge, for which the HSS is asked for a vector
RejectOrChallenge(t) ==
  /\ pc[t] = "absorb"
  /\ \E created \in BOOLEAN :
       LET how == absorb_route(rdata[t].method, status[t])
           auth_hdr == find_auth_hdr(rdata[t])
       IN CASE how = "discard" ->
                 /\ pc' = [pc EXCEPT ![t] = "done"]
                 /\ UNCHANGED <<tdata, calls, status>>
            [] how = "reject_cancel" ->
                 /\ pc' = [pc EXCEPT ![t] = "done"]
                 /\ tdata' = [tdata EXCEPT ![t] = <<Response(PJSIP_SC_FORBIDDEN, <<>>)>>]
                 /\ UNCHANGED <<calls, status>>
            [] how = "challenge" /\ ~created ->
                 /\ pc' = [pc EXCEPT ![t] = "done"]
                 /\ status' = [status EXCEPT ![t] = "PJ_ENOMEM"]
                 /\ tdata' = [tdata EXCEPT ![t] =
                                <<Response(PJSIP_SC_INTERNAL_SERVER_ERROR, <<>>)>>]
                 /\ UNCHANGED calls
            [] how = "challenge" /\ created ->
                 /\ pc' = [pc EXCEPT ![t] = "hss"]
                 /\ status' = [status EXCEPT ![t] = PJ_SUCCESS]
                 /\ calls' = [calls EXCEPT ![t].hss =
                                Append(@, hss_arguments(auth_hdr, rdata[t]))]
                 /\ UNCHANGED tdata
            [] how = "auth_failed" ->
                 /\ pc' = [pc EXCEPT ![t] = "done"]
                 /\ calls' = [calls EXCEPT ![t].auth_failure =
                                IF analytics # NULL
                                THEN Append(@, auth_failure_args(auth_hdr, rdata[t]))
                                ELSE @]
                 /\ tdata' = [tdata EXCEPT ![t] = <<Response(sc[t], <<>>)>>]
                 /\ UNCHANGED status
  /\ ret' = [ret EXCEPT ![t] = IF pc'[t] = "done" THEN PJ_TRUE ELSE @]
  /\ UNCHANGED <<av_store, analytics, rdata, sc, hss_rsp, nreq, consumed,
                 verified_key, rivals, outstanding>>
  /\ UNCHANGED fsm_vars
  /\ UNCHANGED qm_vars

\* hss->get_auth_vector returns (a vector, or NULL); create_challenge
\* builds the header and writes the store; status =
\* pjsip_endpt_send_response2(...): the response is sent, or the send fails
\* and the response built in tdata does not leave
ChallengeReplyOf(t, vectors) ==
  /\ pc[t] = "hss"
  /\ \E av \in {<<>>} \cup {<<v>> : v \in vectors} :
     \E random \in RandomDraws :
     \E sent \in BOOLEAN :
       LET args == Last(calls[t].hss)
           c == create_challenge(args.impi, sc[t], av, random, av_store)
       IN /\ hss_rsp' = [hss_rsp EXCEPT ![t] = <<av>>]
          /\ tdata' = [tdata EXCEPT ![t] = <<c.tdata>>]
          /\ status' = [status EXCEPT ![t] = IF sent THEN PJ_SUCCESS ELSE "PJ_ENOMEM"]
          /\ av_store' = c.store
          /\ calls' = [calls EXCEPT ![t].av_set = @ \o c.av_set]
          /\ consumed' = {k \in consumed : <<k>> # c.av_set}
          /\ verified_key' = [u \in Threads |->
                                IF verified_key[u] = c.av_set THEN <<>>
                                ELSE verified_key[u]]
          /\ outstanding' =
               IF c.tdata.www_authenticate = <<>> \/ c.av_set = <<>>
               THEN outstanding
               ELSE {o \in outstanding :
                       /\ o.key # c.av_set[1]
                       /\ ~(o.impi = args.impi
                            /\ o.nonce = c.tdata.www_authenticate[1].nonce)}
                    \cup (IF sent
                          THEN {[impi |-> args.impi,
                                 nonce |-> c.tdata.www_authenticate[1].nonce,
                                 key |-> c.av_set[1],
                                 av |-> av[1]]}
                          ELSE {})
  /\ pc' = [pc EXCEPT ![t] = "done"]
  /\ ret' = [ret EXCEPT ![t] = PJ_TRUE]
  /\ UNCHANGED <<analytics, rdata, sc, nreq, rivals>>
  /\ UNCHANGED fsm_vars
  /\ UNCHANGED qm_vars

\* The reply of an HSS that returns well-formed vectors
ChallengeReply(t) == ChallengeReplyOf(t, HssVectors)

\* The store's background expiry removes an entry
Expire(key) ==
  /\ key \in DOMAIN av_store
  /\ av_store' = AvStore_expire(av_store, key)
  /\ consumed' = consumed \ {key}
  /\ verified_key' = [u \in Threads |->
                        IF verified_key[u] = <<key>> THEN <<>> ELSE verified_key[u]]
  /\ outstanding' = {o \in outstanding : o.key # key}
  /\ UNCHANGED <<analytics, pc, rdata, status, sc, hss_rsp, tdata, ret, calls, nreq,
                 rivals>>
  /\ UNCHANGED fsm_vars
  /\ UNCHANGED qm_vars

Next ==
  \/ \E t \in Threads : \E r \in ProtoRequests : RxRequest(t, r)
  \/ \E t \in Threads : VerifyResponse(t)
  \/ \E t \in Threads : RejectOrChallenge(t)
  \/ \E t \in Threads : ChallengeReply(t)
  \/ \E key \in DOMAIN av_store : Expire(key)

\* The state after init_authentication was given an AnalyticsLogger
InitLogger == Init /\ analytics # NULL

\* The transport threads of a module initialised with an AnalyticsLogger
Spec == InitLogger /\ [][Next]_vars

\* One thread handling the registrations, with and without an
\* AnalyticsLogger
NextAnalytics ==
  \/ \E r \in ProtoRequests : RxRequest("t1", r)
  \/ VerifyResponse("t1")
  \/ RejectOrChallenge("t1")
  \/ ChallengeReply("t1")
  \/ \E key \in DOMAIN av_store : Expire(key)

SpecAnalytics == Init /\ [][NextAnalytics]_vars

\* The transport threads, with an HSS that may return a vector with both
\* members
NextVariants ==
  \/ \E t \in Threads : \E r \in ProtoRequests : RxRequest(t, r)
  \/ \E t \in Threads : VerifyResponse(t)
  \/ \E t \in Threads : RejectOrChallenge(t)
  \/ \E t \in Threads : ChallengeReplyOf(t, HssVectorsOrBoth)
  \/ \E key \in DOMAIN av_store : Expire(key)

SpecVariants == InitLogger /\ [][NextVariants]_vars

\* One thread handling registrations with extension parameters
NextHeaders ==
  \/ \E r \in HeaderRequests : RxRequest("t1", r)
  \/ VerifyResponse("t1")
  \/ RejectOrChallenge("t1")
  \/ ChallengeReply("t1")
  \/ \E key \in DOMAIN av_store : Expire(key)

SpecHeaders == Init /\ [][NextHeaders]_vars

(***************************************************************************)
(* SynchronizedFSM::send_input                                             *)
(***************************************************************************)
\* A frame of send_input: where the call stands, its argument and its
\* local next_input (0 before it is assigned)
Frame(at, input, next_input) == [pc |-> at, input |-> input, next_input |-> next_input]

\* The innermost frame of a thread
Top(t) == stack[t][Len(stack[t])]

At(t, at) == stack[t] # <<>> /\ Top(t).pc = at

SetTop(t, f) == [stack EXCEPT ![t] = [@ EXCEPT ![Len(@)] = f]]

\* A thread outside the FSM calls send_input(input)
SendInput(t) ==
  /\ stack[t] = <<>>
  /\ nsent < MaxInputs
  /\ nsent' = nsent + 1
  /\ stack' = [stack EXCEPT ![t] = Append(@, Frame("lock", nsent + 1, 0))]
  /\ UNCHANGED <<lock, input_q, running, enqueued, processed>>
  /\ UNCHANGED auth_vars
  /\ UNCHANGED qm_vars

\* process_input, running on the thread, calls send_input(input)
ReenterSendInput(t) ==
  /\ At(t, "process")
  /\ nsent < MaxInputs
  /\ nsent' = nsent + 1
  /\ stack' = [stack EXCEPT ![t] = Append(@, Frame("lock", nsent + 1, 0))]
  /\ UNCHANGED <<lock, input_q, running, enqueued, processed>>
  /\ UNCHANGED auth_vars
  /\ UNCHANGED qm_vars

\* Variant of AcquireAndQueue that starts draining whatever _running says
AcquireAndQueue_always_run(t) ==
  /\ At(t, "lock")
  /\ lock = NULL
  /\ lock' = t
  /\ input_q' = Append(input_q, Top(t).input)
  /\ enqueued' = Append(enqueued, Top(t).input)
  /\ running' = TRUE
  /\ stack' = SetTop(t, [Top(t) EXCEPT !.pc = "loop"])
  /\ UNCHANGED <<nsent, processed>>
  /\ UNCHANGED auth_vars
  /\ UNCHANGED qm_vars

\* pthread_mutex_lock; _input_q.push(input); if (!_running) _running = true
AcquireAndQueue(t) ==
  /\ At(t, "lock")
  /\ lock = NULL
  /\ lock' = t
  /\ input_q' = Append(input_q, Top(t).input)
  /\ enqueued' = Append(enqueued, Top(t).input)
  /\ IF ~running
     THEN /\ running' = TRUE
          /\ stack' = SetTop(t, [Top(t) EXCEPT !.pc = "loop"])
     ELSE /\ running' = running
          /\ stack' = SetTop(t, [Top(t) EXCEPT !.pc = "unlock"])
  /\ UNCHANGED <<nsent, processed>>
  /\ UNCHANGED auth_vars
  /\ UNCHANGED qm_vars

\* Variant of DrainStep that keeps the mutex while process_input runs
DrainStep_keep_lock(t) ==
  /\ At(t, "loop")
  /\ IF input_q # <<>>
     THEN /\ stack' = SetTop(t, [Top(t) EXCEPT !.pc = "process",
                                               !.next_input = Head(input_q)])
          /\ input_q' = Tail(input_q)
          /\ processed' = Append(processed, Head(input_q))
          /\ UNCHANGED <<lock, running>>
     ELSE /\ running' = FALSE
          /\ stack' = SetTop(t, [Top(t) EXCEPT !.pc = "unlock"])
          /\ UNCHANGED <<lock, input_q, processed>>
  /\ UNCHANGED <<nsent, enqueued>>
  /\ UNCHANGED auth_vars
  /\ UNCHANGED qm_vars

\* Variant of DrainStep that takes the input at the back of the queue
DrainStep_take_back(t) ==
  /\ At(t, "loop")
  /\ IF input_q # <<>>
     THEN /\ stack' = SetTop(t, [Top(t) EXCEPT !.pc = "process",
                                               !.next_input = input_q[Len(input_q)]])
          /\ input_q' = SubSeq(input_q, 1, Len(input_q) - 1)
          /\ lock' = NULL
          /\ processed' = Append(processed, input_q[Len(input_q)])
          /\ UNCHANGED running
     ELSE /\ running' = FALSE
          /\ stack' = SetTop(t, [Top(t) EXCEPT !.pc = "unlock"])
          /\ UNCHANGED <<lock, input_q, processed>>
  /\ UNCHANGED <<nsent, enqueued>>
  /\ UNCHANGED auth_vars
  /\ UNCHANGED qm_vars

\* while (!_input_q.empty()): take the front input, drop the lock and
\* enter process_input; on an empty queue _running = false
DrainStep(t) ==
  /\ At(t, "loop")
  /\ IF input_q # <<>>
     THEN /\ stack' = SetTop(t, [Top(t) EXCEPT !.pc = "process",
                                               !.next_input = Head(input_q)])
          /\ input_q' = Tail(input_q)
          /\ lock' = NULL
          /\ processed' = Append(processed, Head(input_q))
          /\ UNCHANGED running
     ELSE /\ running' = FALSE
          /\ stack' = SetTop(t, [Top(t) EXCEPT !.pc = "unlock"])
          /\ UNCHANGED <<lock, input_q, processed>>
  /\ UNCHANGED <<nsent, enqueued>>
  /\ UNCHANGED auth_vars
  /\ UNCHANGED qm_vars

\* process_input(next_input) returns
ProcessInputReturns(t) ==
  /\ At(t, "process")
  /\ stack' = SetTop(t, [Top(t) EXCEPT !.pc = "relock"])
  /\ UNCHANGED <<lock, input_q, running, nsent, enqueued, processed>>
  /\ UNCHANGED auth_vars
  /\ UNCHANGED qm_vars

\* Variant of Relock that leaves the loop after one input
Relock_once(t) ==
  /\ At(t, "relock")
  /\ lock = NULL
  /\ lock' = t
  /\ running' = FALSE
  /\ stack' = SetTop(t, [Top(t) EXCEPT !.pc = "unlock"])
  /\ UNCHANGED <<input_q, nsent, enqueued, processed>>
  /\ UNCHANGED auth_vars
  /\ UNCHANGED qm_vars

\* pthread_mutex_lock after process_input, back to the loop test
Relock(t) ==
  /\ At(t, "relock")
  /\ lock = NULL
  /\ lock' = t
  /\ stack' = SetTop(t, [Top(t) EXCEPT !.pc = "loop"])
  /\ UNCHANGED <<input_q, running, nsent, enqueued, processed>>
  /\ UNCHANGED auth_vars
  /\ UNCHANGED qm_vars

\* pthread_mutex_unlock and return
UnlockReturn(t) ==
  /\ At(t, "unlock")
  /\ lock' = NULL
  /\ stack' = [stack EXCEPT ![t] = SubSeq(@, 1, Len(@) - 1)]
  /\ UNCHANGED <<input_q, running, nsent, enqueued, processed>>
  /\ UNCHANGED auth_vars
  /\ UNCHANGED qm_vars

\* The steps of a thread inside send_input
FsmStep(t) ==
  \/ AcquireAndQueue(t)
  \/ DrainStep(t)
  \/ ProcessInputReturns(t)
  \/ Relock(t)
  \/ UnlockReturn(t)

NextFSM ==
  \/ \E t \in Threads : SendInput(t)
  \/ \E t \in Threads : ReenterSendInput(t)
  \/ \E t \in Threads : AcquireAndQueue(t)
  \/ \E t \in Threads : DrainStep(t)
  \/ \E t \in Threads : ProcessInputReturns(t)
  \/ \E t \in Threads : Relock(t)
  \/ \E t \in Threads : UnlockReturn(t)

SpecFSM == Init /\ [][NextFSM]_vars

\* Every thread inside send_input keeps being scheduled, and every
\* process_input call returns
SpecFSMLive == Init /\ [][NextFSM]_vars /\ \A t \in Threads : WF_vars(FsmStep(t))

(***************************************************************************)
(* QuiescingManager (sprout/quiescing_manager.cpp): process_input, run by  *)
(* SynchronizedFSM::send_input, and the member functions it calls          *)
(***************************************************************************)
STATE_ACTIVE == "STATE_ACTIVE"
STATE_QUIESCING_FLOWS == "STATE_QUIESCING_FLOWS"
STATE_QUIESCING_CONNS == "STATE_QUIESCING_CONNS"
STATE_QUIESCED == "STATE_QUIESCED"

\* The values the assert at the top of process_input accepts for _state
States == {STATE_ACTIVE, STATE_QUIESCING_FLOWS, STATE_QUIESCING_CONNS,
           STATE_QUIESCED}

\* Any other value of the int _state
STATE_OTHER == "STATE_OTHER"

INPUT_QUIESCE == "INPUT_QUIESCE"
INPUT_FLOWS_GONE == "INPUT_FLOWS_GONE"
INPUT_CONNS_GONE == "INPUT_CONNS_GONE"
INPUT_UNQUIESCE == "INPUT_UNQUIESCE"

\* The values the assert at the top of process_input accepts for input
Inputs == {INPUT_QUIESCE, INPUT_FLOWS_GONE, INPUT_CONNS_GONE, INPUT_UNQUIESCE}

\* The statements of process_input: an assignment to _state, a call of a
\* member function
Assign(state) == [op |-> "_state", arg |-> state]

Call(f) == [op |-> "call", arg |-> f]

\* case STATE_ACTIVE: switch (input) {...}
case_STATE_ACTIVE(input) ==
  CASE input = INPUT_QUIESCE ->
         <<Assign(STATE_QUIESCING_FLOWS), Call("quiesce_untrusted_interface")>>
    [] input \in {INPUT_FLOWS_GONE, INPUT_CONNS_GONE} -> <<>>
    [] input = INPUT_UNQUIESCE -> <<Call("invalid_input")>>

\* case STATE_QUIESCING_FLOWS: switch (input) {...} break;
case_STATE_QUIESCING_FLOWS(input) ==
  CASE input = INPUT_QUIESCE -> <<Call("invalid_input")>>
    [] input = INPUT_FLOWS_GONE ->
         <<Assign(STATE_QUIESCING_CONNS), Call("quiesce_connections")>>
    [] input = INPUT_CONNS_GONE -> <<>>
    [] input = INPUT_UNQUIESCE ->
         <<Assign(STATE_ACTIVE), Call("unquiesce_untrusted_interface")>>

\* case STATE_QUIESCING_CONNS: switch (input) {...} break;
case_STATE_QUIESCING_CONNS(input) ==
  CASE input = INPUT_QUIESCE -> <<Call("invalid_input")>>
    [] input = INPUT_FLOWS_GONE -> <<>>
    [] input = INPUT_CONNS_GONE ->
         <<Assign(STATE_QUIESCED), Call("quiesce_complete")>>
    [] input = INPUT_UNQUIESCE ->
         <<Assign(STATE_ACTIVE), Call("unquiesce_connections"),
           Call("unquiesce_untrusted_interface")>>

\* case STATE_QUIESCED: switch (input) {...} break;
case_STATE_QUIESCED(input) ==
  CASE input \in {INPUT_QUIESCE, INPUT_UNQUIESCE} -> <<>>
    [] input \in {INPUT_FLOWS_GONE, INPUT_CONNS_GONE} -> <<Call("invalid_input")>>

\* switch (_state): the statements process_input executes, in order.  The
\* inner switch of case STATE_ACTIVE is not followed by a break, so control
\* runs on into the inner switch of case STATE_QUIESCING_FLOWS with the same
\* input.  A _state outside the four values matches no case.
process_input(state, input) ==
  CASE state = STATE_ACTIVE ->
         case_STATE_ACTIVE(input) \o case_STATE_QUIESCING_FLOWS(input)
    [] state = STATE_QUIESCING_FLOWS -> case_STATE_QUIESCING_FLOWS(input)
    [] state = STATE_QUIESCING_CONNS -> case_STATE_QUIESCING_CONNS(input)
    [] state = STATE_QUIESCED -> case_STATE_QUIESCED(input)
    [] OTHER -> <<>>

\* _conn_tracker->quiesce()
quiesce_connections(tracker) == Append(tracker, "quiesce")

\* _conn_tracker->unquiesce()
unquiesce_connections(tracker) == Append(tracker, "unquiesce")

\* flows_gone(), called by quiesce_untrusted_interface off an edge proxy:
\* send_input(INPUT_FLOWS_GONE) from inside process_input
flows_gone(t) ==
  /\ nsent' = nsent + 1
  /\ inputs' = Append(inputs, INPUT_FLOWS_GONE)
  /\ stack' = [stack EXCEPT ![t] = Append(@, Frame("lock", nsent + 1, 0))]

\* The constructors: _input_q(), _running(false), the mutex, _conn_tracker
\* and _edge_proxy are initialised; _state is not, so it holds any value
InitQM ==
  /\ av_store = <<>>
  /\ analytics = NULL
  /\ pc = [t \in Threads |-> "idle"]
  /\ rdata = [t \in Threads |-> NoRequest]
  /\ status = [t \in Threads |-> "unset"]
  /\ sc = [t \in Threads |-> 0]
  /\ hss_rsp = [t \in Threads |-> <<>>]
  /\ tdata = [t \in Threads |-> <<>>]
  /\ ret = [t \in Threads |-> NoReturn]
  /\ calls = [t \in Threads |-> NoCalls]
  /\ nreq = 0
  /\ consumed = {}
  /\ verified_key = [t \in Threads |-> <<>>]
  /\ rivals = [t \in Threads |-> {}]
  /\ outstanding = {}
  /\ lock = NULL
  /\ input_q = <<>>
  /\ running = FALSE
  /\ stack = [t \in Threads |-> <<>>]
  /\ nsent = 0
  /\ enqueued = <<>>
  /\ processed = <<>>
  /\ qm_state \in States \cup {STATE_OTHER}
  /\ edge_proxy \in BOOLEAN
  /\ ndebug \in BOOLEAN
  /\ aborted = FALSE
  /\ inputs = <<>>
  /\ qm_pc = "idle"
  /\ todo = <<>>
  /\ entered = NoEntry
  /\ invoked = <<>>
  /\ conn_tracker = <<>>
  /\ constructed = qm_state

\* quiesce(), unquiesce(), flows_gone() or connections_gone() is called
\* from outside the FSM: send_input(input)
QmSendInput(t, input) ==
  /\ ~aborted
  /\ stack[t] = <<>>
  /\ nsent < MaxInputs
  /\ nsent' = nsent + 1
  /\ inputs' = Append(inputs, input)
  /\ stack' = [stack EXCEPT ![t] = Append(@, Frame("lock", nsent + 1, 0))]
  /\ UNCHANGED <<lock, input_q, running, enqueued, processed>>
  /\ UNCHANGED <<qm_state, edge_proxy, ndebug, aborted, qm_pc, todo, entered,
                 invoked, conn_tracker, constructed>>
  /\ UNCHANGED auth_vars

\* process_input(next_input) is entered: the two asserts, then the switch
\* on _state selects the statements to execute
QmEnter(t) ==
  /\ ~aborted
  /\ qm_pc = "idle"
  /\ At(t, "process")
  /\ LET input == inputs[Top(t).next_input] IN
       /\ entered' = [state |-> qm_state, input |-> input]
       /\ todo' = process_input(qm_state, input)
  /\ invoked' = <<>>
  /\ aborted' = (qm_state \notin States /\ ~ndebug)
  /\ qm_pc' = "body"
  /\ UNCHANGED <<qm_state, edge_proxy, ndebug, inputs, conn_tracker, constructed>>
  /\ UNCHANGED fsm_vars
  /\ UNCHANGED auth_vars

\* The next statement of process_input: _state = ..., or a call of
\* quiesce_untrusted_interface, quiesce_connections, quiesce_complete,
\* unquiesce_connections, unquiesce_untrusted_interface or invalid_input
\* (LOG_ERROR, assert(false))
QmStatement(t) ==
  /\ ~aborted
  /\ qm_pc = "body"
  /\ At(t, "process")
  /\ todo # <<>>
  /\ todo' = Tail(todo)
  /\ LET s == Head(todo) IN
       /\ qm_state' = IF s.op = "_state" THEN s.arg ELSE qm_state
       /\ invoked' = IF s.op = "call" THEN Append(invoked, s.arg) ELSE invoked
       /\ conn_tracker' =
            CASE s = Call("quiesce_connections") -> quiesce_connections(conn_tracker)
              [] s = Call("unquiesce_connections") -> unquiesce_connections(conn_tracker)
              [] OTHER -> conn_tracker
       /\ aborted' = (s = Call("invalid_input") /\ ~ndebug)
       /\ IF s = Call("quiesce_untrusted_interface") /\ ~edge_proxy
          THEN flows_gone(t)
          ELSE UNCHANGED <<nsent, inputs, stack>>
  /\ UNCHANGED <<lock, input_q, running, enqueued, processed>>
  /\ UNCHANGED <<edge_proxy, ndebug, qm_pc, entered, constructed>>
  /\ UNCHANGED auth_vars

\* process_input returns to send_input
QmReturn(t) ==
  /\ ~aborted
  /\ qm_pc = "body"
  /\ At(t, "process")
  /\ todo = <<>>
  /\ qm_pc' = "idle"
  /\ stack' = SetTop(t, [Top(t) EXCEPT !.pc = "relock"])
  /\ UNCHANGED <<lock, input_q, running, nsent, enqueued, processed>>
  /\ UNCHANGED <<qm_state, edge_proxy, ndebug, aborted, inputs, todo, entered,
                 invoked, conn_tracker, constructed>>
  /\ UNCHANGED auth_vars

\* send_input with QuiescingManager::process_input as the callback; a
\* failed assert ends the process
NextQM ==
  \/ \E t \in Threads : \E input \in Inputs : QmSendInput(t, input)
  \/ \E t \in Threads : ~aborted /\ AcquireAndQueue(t)
  \/ \E t \in Threads : ~aborted /\ DrainStep(t)
  \/ \E t \in Threads : QmEnter(t)
  \/ \E t \in Threads : QmStatement(t)
  \/ \E t \in Threads : QmReturn(t)
  \/ \E t \in Threads : ~aborted /\ Relock(t)
  \/ \E t \in Threads : ~aborted /\ UnlockReturn(t)

SpecQM == InitQM /\ [][NextQM]_vars

(***************************************************************************)
(* Properties                                                              *)
(***************************************************************************)
Done(t) == pc[t] = "done"

\* The store key named by the first Authorization header of a request
HdrKey(msg) == AvKey(msg.auth[1].username, msg.auth[1].nonce)

\* The thread takes its verification step
Verifies(t) == pc[t] = "verify" /\ pc'[t] # "verify"

\* The request was passed through by a successful verification
PassedByVerification(t) ==
  Done(t) /\ ret[t] = PJ_FALSE /\ status[t] = PJ_SUCCESS /\ tdata[t] = <<>>

\* The request carries the integrity-protected parameter with a trusted
\* value, names and values compared ignoring case
TrustedMarker(msg) ==
  /\ Len(msg.auth) > 0
  /\ LET ps == msg.auth[1].other_param
     IN \E i \in 1..Len(ps) :
          /\ ToLower(ps[i].name) = ToLower(STR_INTEGRITY_PROTECTED)
          /\ \A j \in 1..(i - 1) :
               ToLower(ps[j].name) # ToLower(STR_INTEGRITY_PROTECTED)
          /\ ToLower(ps[i].value) \in
               {ToLower(STR_YES), ToLower(STR_TLS_YES), ToLower(STR_IP_ASSOC_YES)}

\* C1: no replay: once a stored vector has verified a response, no further
\* verification against the same (privateId, nonce) succeeds; the attempt
\* fails as account-not-found (NoSuchChallenge)
C1_NoReplay ==
  [][\A t \in Threads :
       (Verifies(t) /\ HdrKey(rdata[t]) \in consumed)
       => /\ ret'[t] # PJ_FALSE
          /\ (rdata[t].auth[1].realm = ServerRealm
              => status'[t] = PJSIP_EAUTHACCNOTFOUND)]_vars

\* C2: of two requests with the same (privateId, nonce) and the same
\* correct response that are in flight together, at most one is passed
\* through on the strength of the stored vector
C2_OneOfTwoConcurrent ==
  \A t \in Threads : \A u \in rivals[t] :
    ~(verified_key[t] # <<>> /\ verified_key[u] = verified_key[t])

\* C3: a REGISTER that is not integrity protected is passed through only
\* after user_lookup read the store under exactly the (username, nonce) of
\* its header and found an entry there at that moment; when there is no
\* such entry the lookup returns account-not-found and the request is not
\* passed
C3_PassOnlyOnStoredVector ==
  /\ [](\A t \in Threads :
          (Done(t) /\ ret[t] = PJ_FALSE
             /\ rdata[t].method = PJSIP_REGISTER_METHOD
             /\ ~TrustedMarker(rdata[t]))
          => /\ status[t] = PJ_SUCCESS
             /\ calls[t].av_get = <<HdrKey(rdata[t])>>)
  /\ [][\A t \in Threads :
          Verifies(t)
          => /\ (ret'[t] = PJ_FALSE => HdrKey(rdata[t]) \in DOMAIN av_store)
             /\ (HdrKey(rdata[t]) \notin DOMAIN av_store
                 => /\ ret'[t] # PJ_FALSE
                    /\ pc'[t] = "absorb"
                    /\ (rdata[t].auth[1].realm = ServerRealm
                        => status'[t] = PJSIP_EAUTHACCNOTFOUND))]_vars

\* One thread passed by verification while another was refused for a
\* (username, nonce) the store does not hold
C3_Witness ==
  \E t \in Threads, u \in Threads :
    /\ PassedByVerification(t)
    /\ Done(u) /\ status[u] = PJSIP_EAUTHACCNOTFOUND /\ ret[u] = PJ_TRUE
    /\ HdrKey(rdata[u]) \notin DOMAIN av_store

\* C4: a request whose integrity-protected parameter has a trusted value
\* is passed through: no HSS call, no store read or write, no failure
\* report and no response, whatever else the header holds
C4_BypassTrusted ==
  \A t \in Threads :
    (pc[t] # "idle" /\ TrustedMarker(rdata[t]))
    => /\ pc[t] = "done"
       /\ ret[t] = PJ_FALSE
       /\ tdata[t] = <<>>
       /\ calls[t] = NoCalls
       /\ hss_rsp[t] = <<>>

\* A REGISTER with a response and the marker value in upper case was
\* passed through while the store holds a vector
C4_Witness ==
  \E t \in Threads :
    /\ Done(t) /\ ret[t] = PJ_FALSE
    /\ rdata[t].method = PJSIP_REGISTER_METHOD
    /\ TrustedMarker(rdata[t])
    /\ rdata[t].auth[1].response # <<>>
    /\ rdata[t].auth[1].other_param[1].value = "YES"
    /\ DOMAIN av_store # {}

\* C5: when the HSS returns no vector the response is a 403 without a
\* challenge header, the store is left as it was, and the HSS was called
\* once for the request
C5_ForbiddenOnEmptySource ==
  /\ [](\A t \in Threads :
          (Done(t) /\ hss_rsp[t] = << <<>> >>)
          => /\ tdata[t] = <<[code |-> 403, www_authenticate |-> <<>>]>>
             /\ calls[t].av_set = <<>>
             /\ Len(calls[t].hss) = 1)
  /\ [][\A t \in Threads :
          (pc[t] = "hss" /\ hss_rsp'[t] = << <<>> >>) => av_store' = av_store]_vars

\* The HSS returned nothing for a request while the store held a vector
C5_Witness ==
  \E t \in Threads :
    /\ Done(t) /\ hss_rsp[t] = << <<>> >>
    /\ tdata[t] # <<>>
    /\ DOMAIN av_store # {}

\* C6: a request presenting the private identity and the nonce of an
\* emitted Digest challenge that has not been evicted, with the correct
\* digest response for the ha1 of its vector, is verified and passed
C6_ChallengeRoundTrip ==
  [][\A t \in Threads :
       (/\ Verifies(t)
        /\ \E o \in outstanding :
             /\ o.impi = rdata[t].auth[1].username
             /\ o.nonce = rdata[t].auth[1].nonce
             /\ isMember(o.av, "digest") /\ ~isMember(o.av, "aka")
             /\ rdata[t].auth[1].realm = ServerRealm
             /\ rdata[t].auth[1].response =
                  ClientResponse(o.impi, ServerRealm, o.nonce,
                                 DigestSecret(o.av.digest.ha1)))
       => /\ pc'[t] = "done"
          /\ ret'[t] = PJ_FALSE
          /\ status'[t] = PJ_SUCCESS
          /\ tdata'[t] = <<>>]_vars

\* A request was passed by verification against an outstanding Digest
\* challenge whose nonce differs from its opaque
C6_Witness ==
  \E t \in Threads : \E o \in outstanding :
    /\ PassedByVerification(t)
    /\ o.impi = rdata[t].auth[1].username
    /\ o.nonce = rdata[t].auth[1].nonce
    /\ isMember(o.av, "digest")
    /\ \E u \in Threads :
         /\ Done(u) /\ tdata[u] # <<>> /\ tdata[u][1].www_authenticate # <<>>
         /\ tdata[u][1].www_authenticate[1].nonce = o.nonce
         /\ tdata[u][1].www_authenticate[1].opaque # o.nonce

\* The private identity of a request: the username of its Authorization
\* header when there is one and it is not empty, else the To URI without
\* its scheme prefix
PrivateIdOf(msg) ==
  IF Len(msg.auth) > 0 /\ msg.auth[1].username # ""
  THEN msg.auth[1].username
  ELSE msg.to[2]

\* The thread's create_challenge emits a challenge header
EmitsChallenge(t) ==
  /\ pc[t] = "hss" /\ pc'[t] = "done"
  /\ tdata'[t] # <<>> /\ tdata'[t][1].www_authenticate # <<>>

\* C7: when create_challenge emits a challenge, the store then holds the
\* vector the HSS returned under (privateId, nonce of the emitted header),
\* and that is the one key written; for AKA the nonce is the vector's
\* challenge, for Digest a minted random string
C7_StoredUnderEmittedNonce ==
  [][\A t \in Threads :
       EmitsChallenge(t)
       => LET h   == tdata'[t][1].www_authenticate[1]
              av  == hss_rsp'[t][1][1]
              key == AvKey(PrivateIdOf(rdata[t]), h.nonce)
          IN /\ key \in DOMAIN av_store'
             /\ av_store'[key] = av
             /\ calls'[t].av_set = <<key>>
             /\ \A k \in DOMAIN av_store' \ {key} :
                  k \in DOMAIN av_store /\ av_store'[k] = av_store[k]
             /\ IF isMember(av, "aka")
                THEN h.nonce = av.aka.challenge
                ELSE h.nonce \in RandomStrings]_vars

\* A Digest challenge was emitted for a request with a header username
\* that differs from the To URI's user, nonce and opaque differing, and
\* the vector is in the store under (username, nonce)
C7_Witness ==
  \E t \in Threads :
    /\ Done(t) /\ tdata[t] # <<>> /\ tdata[t][1].www_authenticate # <<>>
    /\ Len(rdata[t].auth) > 0
    /\ rdata[t].auth[1].username = "alice" /\ rdata[t].to[2] = "bob"
    /\ tdata[t][1].www_authenticate[1].nonce # tdata[t][1].www_authenticate[1].opaque
    /\ isMember(hss_rsp[t][1][1], "digest")
    /\ AvKey("alice", tdata[t][1].www_authenticate[1].nonce) \in DOMAIN av_store

\* C8: the challenge header by variant of the vector the HSS returned
C8_HeaderByVariant ==
  \A t \in Threads :
    (Done(t) /\ tdata[t] # <<>> /\ tdata[t][1].www_authenticate # <<>>)
    => LET h  == tdata[t][1].www_authenticate[1]
           av == hss_rsp[t][1][1]
       IN /\ Len(tdata[t][1].www_authenticate) = 1
          /\ h.stale = FALSE
          /\ IF isMember(av, "aka")
             THEN /\ h.algorithm = "AKAv1-MD5"
                  /\ h.nonce = av.aka.challenge
                  /\ h.nonce \notin RandomStrings
                  /\ h.qop = "auth"
                  /\ h.other_param = <<[name |-> "ck", value |-> av.aka.cryptkey],
                                       [name |-> "ik", value |-> av.aka.integritykey]>>
             ELSE /\ h.algorithm = "MD5"
                  /\ h.nonce \in RandomStrings
                  /\ h.qop = av.digest.qop
                  /\ h.other_param = <<>>

\* One thread emitted an AKA challenge and another a Digest challenge
C8_Witness ==
  \E t \in Threads, u \in Threads :
    /\ Done(t) /\ tdata[t] # <<>> /\ tdata[t][1].www_authenticate # <<>>
    /\ isMember(hss_rsp[t][1][1], "aka")
    /\ tdata[t][1].www_authenticate[1].nonce = "abc123"
    /\ Done(u) /\ tdata[u] # <<>> /\ tdata[u][1].www_authenticate # <<>>
    /\ isMember(hss_rsp[u][1][1], "digest")
    /\ tdata[u][1].www_authenticate[1].qop = "auth-int"

\* The extension parameters of a request that carry the resync token
\* name, ignoring case
AutsParams(msg) ==
  IF Len(msg.auth) = 0 THEN {}
  ELSE {i \in 1..Len(msg.auth[1].other_param) :
          ToLower(msg.auth[1].other_param[i].name) = ToLower(STR_AUTN)}

\* C9: the HSS is called with the value of the first extension parameter
\* whose name is the resync token name (ignoring case) as the resync token,
\* and with the empty token when there is no such parameter or no header
C9_FirstMatchForwarded ==
  \A t \in Threads : \A n \in 1..Len(calls[t].hss) :
    LET m == AutsParams(rdata[t])
    IN calls[t].hss[n].autn =
         IF m = {} THEN ""
         ELSE rdata[t].auth[1].other_param[CHOOSE i \in m : \A j \in m : i <= j].value

\* C9 as amended: the value of the last matching parameter is the one
\* forwarded
C9_LastMatchForwarded ==
  \A t \in Threads : \A n \in 1..Len(calls[t].hss) :
    LET m == AutsParams(rdata[t])
    IN calls[t].hss[n].autn =
         IF m = {} THEN ""
         ELSE rdata[t].auth[1].other_param[CHOOSE i \in m : \A j \in m : i >= j].value

\* The HSS was called for a request with two resync parameters of
\* different values
C9_Witness ==
  \E t \in Threads :
    /\ Len(calls[t].hss) = 1
    /\ Cardinality(AutsParams(rdata[t])) = 2
    /\ calls[t].hss[1].autn = "X2"

\* The request carried a response, user_lookup was run for it and it was
\* not passed
VerificationFailed(t) ==
  /\ Len(rdata[t].auth) > 0 /\ rdata[t].auth[1].response # <<>>
  /\ calls[t].av_get # <<>>
  /\ ret[t] # PJ_FALSE
  /\ pc[t] # "verify"

\* C10: after a failed verification of a response the HSS is invoked and
\* the client receives a fresh challenge or a 403
C10_FailureRechallenged ==
  \A t \in Threads :
    (Done(t) /\ VerificationFailed(t))
    => /\ Len(calls[t].hss) = 1
       /\ Len(tdata[t]) = 1
       /\ \/ tdata[t][1].code = 401 /\ tdata[t][1].www_authenticate # <<>>
          \/ tdata[t][1].code = 403

\* C10 as amended: after a failed verification of a response (no stored
\* vector, or no match) the HSS is not invoked and the store is not
\* written; the client receives a 403 without a challenge
C10_FailureRejected ==
  \A t \in Threads :
    VerificationFailed(t)
    => /\ pc[t] \in {"absorb", "done"}
       /\ status[t] \in {PJSIP_EAUTHACCNOTFOUND, PJSIP_EAUTHINVALIDDIGEST}
       /\ calls[t].hss = <<>>
       /\ calls[t].av_set = <<>>
       /\ hss_rsp[t] = <<>>
       /\ Done(t) => /\ tdata[t] = <<[code |-> 403, www_authenticate |-> <<>>]>>
                     /\ ret[t] = PJ_TRUE

\* One request was rejected for a wrong response against a stored vector
\* and another for a nonce the store does not hold
C10_Witness ==
  \E t \in Threads, u \in Threads :
    /\ Done(t) /\ VerificationFailed(t) /\ status[t] = PJSIP_EAUTHINVALIDDIGEST
    /\ Done(u) /\ VerificationFailed(u) /\ status[u] = PJSIP_EAUTHACCNOTFOUND

\* The response built for the thread's request, when there is one
Sent(t) == tdata[t][1]

\* pjsip_endpt_send_response2 failed for the thread's request: the response
\* that create_challenge filled in did not leave
SendFailed(t) == Done(t) /\ Len(calls[t].hss) = 1 /\ status[t] # PJ_SUCCESS

\* C11: the outcome of every request is a silent pass-through, a 401 with a
\* challenge header, or a 403 without one; no other status is sent
C11_ThreeOutcomes ==
  \A t \in Threads :
    Done(t)
    => \/ ret[t] = PJ_FALSE /\ tdata[t] = <<>>
       \/ /\ ret[t] = PJ_TRUE /\ Len(tdata[t]) = 1 /\ ~SendFailed(t)
          /\ Sent(t).code = 401 /\ Len(Sent(t).www_authenticate) = 1
       \/ /\ ret[t] = PJ_TRUE /\ Len(tdata[t]) = 1 /\ ~SendFailed(t)
          /\ Sent(t).code = 403 /\ Sent(t).www_authenticate = <<>>

\* C11 as amended: a fourth outcome is a 500 without a challenge header,
\* sent when, and only when, the challenge response could not be created;
\* a fifth is that the request is absorbed and nothing is sent, when, and
\* only when, the send of the 401 or 403 filled in by create_challenge fails
C11_VisibleOutcomes ==
  \A t \in Threads :
    Done(t)
    => \/ ret[t] = PJ_FALSE /\ tdata[t] = <<>>
       \/ /\ ret[t] = PJ_TRUE /\ Len(tdata[t]) = 1 /\ ~SendFailed(t)
          /\ Sent(t).code = 401 /\ Len(Sent(t).www_authenticate) = 1
          /\ status[t] = PJ_SUCCESS
       \/ /\ ret[t] = PJ_TRUE /\ Len(tdata[t]) = 1 /\ ~SendFailed(t)
          /\ Sent(t).code = 403 /\ Sent(t).www_authenticate = <<>>
          /\ status[t] \in {PJ_SUCCESS, PJSIP_EAUTHACCNOTFOUND, PJSIP_EAUTHINVALIDDIGEST}
       \/ /\ ret[t] = PJ_TRUE /\ Len(tdata[t]) = 1 /\ ~SendFailed(t)
          /\ Sent(t).code = 500 /\ Sent(t).www_authenticate = <<>>
          /\ status[t] = "PJ_ENOMEM"
          /\ calls[t].hss = <<>> /\ calls[t].av_set = <<>>
       \/ /\ ret[t] = PJ_TRUE /\ Len(tdata[t]) = 1 /\ SendFailed(t)
          /\ \/ Sent(t).code = 401 /\ Len(Sent(t).www_authenticate) = 1
             \/ Sent(t).code = 403 /\ Sent(t).www_authenticate = <<>>
          /\ Len(hss_rsp[t]) = 1

\* One request was answered with the 500 while the 401 challenge built for
\* another could not be sent
C11_Witness ==
  \E t \in Threads, u \in Threads :
    /\ Done(t) /\ Len(tdata[t]) = 1 /\ Sent(t).code = 500 /\ ~SendFailed(t)
    /\ SendFailed(u) /\ Sent(u).code = 401
    /\ Len(Sent(u).www_authenticate) = 1

\* C12: a request of a method other than REGISTER is passed through with
\* no HSS call, no store access, no failure report and no response,
\* whatever its credential header holds
C12_OtherMethodsBypass ==
  \A t \in Threads :
    (pc[t] # "idle" /\ rdata[t].method # PJSIP_REGISTER_METHOD)
    => /\ pc[t] = "done"
       /\ ret[t] = PJ_FALSE
       /\ tdata[t] = <<>>
       /\ calls[t] = NoCalls
       /\ hss_rsp[t] = <<>>

\* An INVITE carrying a wrong response was passed through while the store
\* holds the vector its header names
C12_Witness ==
  \E t \in Threads :
    /\ Done(t) /\ ret[t] = PJ_FALSE
    /\ rdata[t].method = PJSIP_INVITE_METHOD
    /\ Len(rdata[t].auth) = 1
    /\ rdata[t].auth[1].response =
         ClientResponse("alice", ServerRealm, "rnd1", DigestSecret(Ha1Of("alice", "pw2")))
    /\ HdrKey(rdata[t]) \in DOMAIN av_store

\* The request carries no credentials the module accepts: no header, an
\* empty response, or a response that does not verify against the store
Unauthenticated(msg, store) ==
  \/ Len(msg.auth) = 0
  \/ msg.auth[1].response = <<>>
  \/ pjsip_auth_srv_verify(store, msg).status # PJ_SUCCESS

\* C13: an unauthenticated ACK is dropped (no response, not passed on), an
\* unauthenticated CANCEL is rejected with a 403; neither calls the HSS
C13_UnchallengeableAbsorbed ==
  \A t \in Threads :
    (Done(t) /\ ~TrustedMarker(rdata[t]) /\ Unauthenticated(rdata[t], av_store))
    => /\ rdata[t].method = PJSIP_ACK_METHOD
          => ret[t] = PJ_TRUE /\ tdata[t] = <<>> /\ calls[t].hss = <<>>
       /\ rdata[t].method = PJSIP_CANCEL_METHOD
          => /\ ret[t] = PJ_TRUE
             /\ tdata[t] = <<[code |-> 403, www_authenticate |-> <<>>]>>
             /\ calls[t].hss = <<>>

\* The response a client computes from the secret of a stored vector: the
\* AKA response as password when the vector has one, else the digest ha1
ResponseFor(msg, av) ==
  ClientResponse(msg.auth[1].username, ServerRealm, msg.auth[1].nonce,
                 IF isMember(av, "aka")
                 THEN PlainSecret(av.aka.response)
                 ELSE DigestSecret(av.digest.ha1))

\* C14: a verification that fails leaves the store as it was, so the entry
\* it was run against is still there; a later request with the correct
\* response for an entry that is present is verified; an entry leaves the
\* store on no step that is a failed verification
C14_FailureKeepsVector ==
  /\ [][\A t \in Threads :
          (Verifies(t) /\ status'[t] # PJ_SUCCESS)
          => /\ av_store' = av_store
             /\ (HdrKey(rdata[t]) \in DOMAIN av_store
                 => HdrKey(rdata[t]) \in DOMAIN av_store')]_vars
  /\ [][\A t \in Threads :
          (/\ Verifies(t)
           /\ HdrKey(rdata[t]) \in DOMAIN av_store
           /\ rdata[t].auth[1].realm = ServerRealm
           /\ rdata[t].auth[1].response = ResponseFor(rdata[t], av_store[HdrKey(rdata[t])]))
          => status'[t] = PJ_SUCCESS /\ ret'[t] = PJ_FALSE]_vars

\* A wrong response has failed against a stored Digest vector that never
\* verified anything; the vector is still stored and a request with the
\* correct response for it is about to be verified
C14_Witness ==
  \E t \in Threads, u \in Threads :
    /\ Done(u) /\ VerificationFailed(u) /\ status[u] = PJSIP_EAUTHINVALIDDIGEST
    /\ HdrKey(rdata[u]) \in DOMAIN av_store
    /\ HdrKey(rdata[u]) \notin consumed
    /\ pc[t] = "verify"
    /\ HdrKey(rdata[t]) = HdrKey(rdata[u])
    /\ rdata[t].auth[1].realm = ServerRealm
    /\ rdata[t].auth[1].response = ResponseFor(rdata[t], av_store[HdrKey(rdata[t])])

\* Exactly one of the two variants is populated
ExactlyOneVariant(av) == isMember(av, "aka") # isMember(av, "digest")

\* C15: a vector with both variants, or neither, is never used: no
\* challenge is emitted for one the HSS returned, none is stored, and no
\* verification succeeds against one
C15_VariantExclusivity ==
  /\ \A k \in DOMAIN av_store : ExactlyOneVariant(av_store[k])
  /\ \A t \in Threads :
       (Done(t) /\ hss_rsp[t] # <<>> /\ hss_rsp[t][1] # <<>>
          /\ ~ExactlyOneVariant(hss_rsp[t][1][1]))
       => /\ Sent(t).www_authenticate = <<>>
          /\ calls[t].av_set = <<>>
  /\ \A t \in Threads :
       (PassedByVerification(t) /\ verified_key[t] # <<>>)
       => ExactlyOneVariant(av_store[verified_key[t][1]])

\* The request is a registration that carried a response, was not trusted
\* as integrity protected and was not passed through
ResponseRefused(t) ==
  /\ Done(t) /\ ret[t] = PJ_TRUE
  /\ rdata[t].method = PJSIP_REGISTER_METHOD
  /\ Len(rdata[t].auth) > 0 /\ rdata[t].auth[1].response # <<>>

\* The report the claim expects for the thread's request
ExpectedReport(t) ==
  [impi |-> rdata[t].auth[1].username, aor |-> rdata[t].to]

\* C16: the failure reporter is invoked, with (username of the credential
\* header, address of record of the To URI), exactly for the requests whose
\* presented response was refused
C16_ReportedExactlyOnFailure ==
  \A t \in Threads :
    calls[t].auth_failure =
      IF ResponseRefused(t) THEN <<ExpectedReport(t)>> ELSE <<>>

\* C16 as amended: the reporter is invoked exactly when one is configured
\* and the credential lookup or the digest comparison of a presented
\* response has failed; a response in a header for another realm is
\* challenged without a report
C16_ReportedWhenConfigured ==
  \A t \in Threads :
    /\ calls[t].auth_failure =
         IF Done(t) /\ VerificationFailed(t) /\ analytics # NULL
         THEN <<ExpectedReport(t)>>
         ELSE <<>>
    /\ calls[t].auth_failure # <<>>
       => /\ Len(rdata[t].auth) > 0
          /\ status[t] \in {PJSIP_EAUTHACCNOTFOUND, PJSIP_EAUTHINVALIDDIGEST}
          /\ Sent(t).code = 403
    /\ (Done(t) /\ ResponseRefused(t) /\ ~VerificationFailed(t))
       => /\ rdata[t].auth[1].realm # ServerRealm
          /\ calls[t].av_get = <<>>

\* With an AnalyticsLogger configured, a failure was reported for a header
\* username that differs from the user of the To URI
C16_Witness ==
  \E t \in Threads :
    /\ analytics # NULL
    /\ Done(t) /\ VerificationFailed(t)
    /\ calls[t].auth_failure = <<[impi |-> "bob", aor |-> <<"sip:", "alice">>]>>
    /\ Sent(t).code = 403

\* The request is a registration that is not integrity protected
Subject(msg) == msg.method = PJSIP_REGISTER_METHOD /\ ~TrustedMarker(msg)

\* The request has no credential header, or one with an empty response
NoResponse(msg) == Len(msg.auth) = 0 \/ msg.auth[1].response = <<>>

\* C17: a registration without a response goes to the challenge branch
\* without any read of the store; a challenge makes one HSS call and, when
\* a vector comes back, one store insertion; a registration with a
\* response goes to verification first, and one that verifies causes no
\* HSS call
C17_RoutingAndRoundTrips ==
  /\ [](\A t \in Threads :
          (pc[t] # "idle" /\ Subject(rdata[t]) /\ NoResponse(rdata[t]))
          => /\ pc[t] \in {"absorb", "hss", "done"}
             /\ calls[t].av_get = <<>>
             /\ calls[t].auth_failure = <<>>
             /\ pc[t] = "absorb" => absorb_route(rdata[t].method, status[t]) = "challenge"
             /\ Done(t) => Len(calls[t].hss) = 1 \/ Sent(t).code = 500)
  /\ [](\A t \in Threads :
          /\ Len(calls[t].hss) <= 1
          /\ pc[t] = "hss"
             => Len(calls[t].hss) = 1 /\ calls[t].av_set = <<>> /\ hss_rsp[t] = <<>>
          /\ (Done(t) /\ Len(calls[t].hss) = 1)
             => /\ Len(hss_rsp[t]) = 1
                /\ Len(calls[t].av_set) = IF hss_rsp[t][1] = <<>> THEN 0 ELSE 1
          /\ calls[t].hss = <<>> => calls[t].av_set = <<>> /\ hss_rsp[t] = <<>>)
  /\ [](\A t \in Threads :
          (pc[t] # "idle" /\ Subject(rdata[t]) /\ ~NoResponse(rdata[t]))
          => /\ pc[t] \in {"verify", "absorb", "hss", "done"}
             /\ pc[t] = "verify" => calls[t] = NoCalls
             /\ PassedByVerification(t) => calls[t].hss = <<>> /\ calls[t].av_set = <<>>)
  /\ [][\A t \in Threads :
          (pc'[t] = "absorb" /\ pc[t] # "absorb"
             /\ Subject(rdata'[t]) /\ ~NoResponse(rdata'[t]))
          => pc[t] = "verify" /\ rdata'[t] = rdata[t]]_vars

\* One registration without a response was challenged and its vector
\* stored; another, with a response, was verified and passed
C17_Witness ==
  \E t \in Threads, u \in Threads :
    /\ Done(t) /\ Subject(rdata[t]) /\ NoResponse(rdata[t])
    /\ Len(rdata[t].auth) = 1
    /\ Len(calls[t].hss) = 1 /\ Len(calls[t].av_set) = 1
    /\ PassedByVerification(u) /\ Subject(rdata[u])
    /\ calls[u].av_get # <<>>

\* The frames of send_input that are inside process_input
ProcessFrames ==
  {<<t, i>> \in Threads \X (1..MaxInputs) :
     i <= Len(stack[t]) /\ stack[t][i].pc = "process"}

\* The thread's outermost send_input call is the one draining the queue
Runner(t) == stack[t] # <<>> /\ stack[t][1].pc \in {"loop", "process", "relock"}

\* C18: at most one invocation of process_input is executing at any time,
\* process_input is never entered recursively, and _running is set exactly
\* while one thread is the runner
C18_SingleRunner ==
  /\ Cardinality(ProcessFrames) <= 1
  /\ Cardinality({t \in Threads : Runner(t)}) <= 1
  /\ running <=> \E t \in Threads : Runner(t)

\* process_input is executing on one thread and has called send_input,
\* while another thread is inside send_input with its input queued
C18_Witness ==
  \E t \in Threads, u \in Threads :
    /\ t # u
    /\ Len(stack[t]) = 2 /\ stack[t][1].pc = "process"
    /\ At(u, "unlock") /\ lock = u
    /\ Top(u).input = input_q[Len(input_q)]

\* C19: the mutex is not held by a thread that is executing process_input;
\* the holder of the mutex is always at a point from which it releases it
\* without waiting; a send_input call made while the FSM is running
\* (from inside process_input or from another thread) only queues its
\* input and returns, leaving it in the queue for the runner; every
\* send_input call from inside process_input returns
C19_LockDroppedAroundCallback ==
  /\ [](\A t \in Threads :
          /\ At(t, "process") => lock # t
          /\ At(t, "relock") => lock # t
          /\ lock = t <=> (At(t, "loop") \/ At(t, "unlock"))
          /\ Len(stack[t]) <= 2
          /\ Len(stack[t]) = 2
             => /\ stack[t][1].pc = "process"
                /\ Top(t).pc \in {"lock", "unlock"}
          /\ (At(t, "unlock") /\ running)
             => /\ ~Runner(t) \/ Len(stack[t]) = 2
                /\ \E i \in 1..Len(input_q) : input_q[i] = Top(t).input)
  /\ \A t \in Threads : (Len(stack[t]) = 2) ~> (Len(stack[t]) = 1)

\* A send_input call made from inside process_input holds the mutex with
\* its input queued, while a second thread waits for the mutex
C19_Witness ==
  \E t \in Threads, u \in Threads :
    /\ t # u
    /\ Len(stack[t]) = 2 /\ Top(t).pc = "unlock" /\ lock = t
    /\ input_q # <<>> /\ input_q[Len(input_q)] = Top(t).input
    /\ At(u, "lock")

\* The elements of a sequence
Range(q) == {q[i] : i \in 1..Len(q)}

NoDuplicates(q) == \A i \in 1..Len(q), j \in 1..Len(q) : q[i] = q[j] => i = j

\* C20: no input is handed to process_input twice, every input handed
\* over was queued, every queued input is either still queued or was
\* handed over; when the mutex is free and _running is false the queue is
\* empty; and every input passed to send_input is eventually handed to
\* process_input
C20_NoLossNoDuplication ==
  /\ [](/\ NoDuplicates(processed)
        /\ NoDuplicates(input_q)
        /\ Range(processed) \cap Range(input_q) = {}
        /\ Range(processed) \cup Range(input_q) = Range(enqueued)
        /\ Len(processed) + Len(input_q) = Len(enqueued)
        /\ Range(enqueued) \subseteq 1..nsent
        /\ (lock = NULL /\ ~running) => input_q = <<>>)
  /\ \A i \in 1..MaxInputs : (nsent >= i) ~> (i \in Range(processed))

\* Every input sent was handed to process_input, not in the order of the
\* calls, and the FSM is at rest
C20_Witness ==
  /\ nsent = MaxInputs
  /\ Len(processed) = nsent
  /\ \E i \in 1..Len(processed) : processed[i] # i
  /\ \A t \in Threads : stack[t] = <<>>
  /\ lock = NULL /\ ~running /\ input_q = <<>>

\* C21: process_input is invoked on the inputs in exactly the order in
\* which send_input pushed them under the mutex: the inputs handed over so
\* far, followed by those still queued, are the inputs pushed, in order
C21_FifoOrder ==
  /\ processed \o input_q = enqueued
  /\ \A t \in Threads : \A i \in 1..Len(stack[t]) :
       stack[t][i].pc \in {"process", "relock"}
       => stack[t][i].next_input = processed[Len(processed)]

\* Two inputs were handed to process_input in the order they were pushed,
\* which is not the order of the send_input calls, a third is queued and
\* was pushed by a call made from inside process_input
C21_Witness ==
  /\ Len(processed) = 2 /\ Len(input_q) = 1
  /\ processed[1] > processed[2]
  /\ \E t \in Threads :
       /\ Len(stack[t]) = 2 /\ At(t, "unlock")
       /\ Top(t).input = input_q[1]
       /\ stack[t][1].next_input = processed[2]

\* The pair (_state, input) the latest process_input call was entered with
EnteredWith(state, input) == entered = [state |-> state, input |-> input]

\* The statements of the latest process_input call have all been executed
BodyDone == entered # NoEntry /\ todo = <<>> /\ ~aborted

\* How many times the latest process_input call has called f
Times(f) == Cardinality({i \in 1..Len(invoked) : invoked[i] = f})

\* The (state, input) pairs whose inner case calls invalid_input
InvalidPairs ==
  {<<STATE_ACTIVE, INPUT_UNQUIESCE>>, <<STATE_QUIESCING_FLOWS, INPUT_QUIESCE>>,
   <<STATE_QUIESCING_CONNS, INPUT_QUIESCE>>, <<STATE_QUIESCED, INPUT_FLOWS_GONE>>,
   <<STATE_QUIESCED, INPUT_CONNS_GONE>>}

\* C22: process_input entered in STATE_ACTIVE with INPUT_QUIESCE does not
\* reach invalid_input and fails no assertion, and when its statements are
\* done _state is STATE_QUIESCING_FLOWS and quiesce_untrusted_interface has
\* been called exactly once; invalid_input is reached only by a call
\* entered with one of the five pairs marked invalid
C22_ActiveQuiesce ==
  /\ EnteredWith(STATE_ACTIVE, INPUT_QUIESCE) =>
       /\ ~aborted
       /\ Times("invalid_input") = 0
       /\ BodyDone => /\ qm_state = STATE_QUIESCING_FLOWS
                      /\ Times("quiesce_untrusted_interface") = 1
  /\ Times("invalid_input") > 0 => <<entered.state, entered.input>> \in InvalidPairs

\* The (state, input) pairs whose inner case is commented "No-op."
NoOpPairs ==
  {<<STATE_ACTIVE, INPUT_FLOWS_GONE>>, <<STATE_ACTIVE, INPUT_CONNS_GONE>>,
   <<STATE_QUIESCING_FLOWS, INPUT_CONNS_GONE>>,
   <<STATE_QUIESCING_CONNS, INPUT_FLOWS_GONE>>,
   <<STATE_QUIESCED, INPUT_QUIESCE>>, <<STATE_QUIESCED, INPUT_UNQUIESCE>>}

\* The quiesce and unquiesce member functions of QuiescingManager
QuiesceActions ==
  {"quiesce_untrusted_interface", "quiesce_connections", "quiesce_complete",
   "unquiesce_connections", "unquiesce_untrusted_interface"}

\* C23: a process_input call entered with one of the six no-op pairs
\* leaves _state as it was at entry and calls none of the quiesce and
\* unquiesce member functions
C23_NoOpPairs ==
  <<entered.state, entered.input>> \in NoOpPairs =>
    /\ qm_state = entered.state
    /\ \A f \in QuiesceActions : Times(f) = 0

\* The calls on the connection tracker are quiesce, unquiesce, quiesce, ...
\* in that order whenever the constructor left STATE_ACTIVE in _state
AlternatesFromActive ==
  constructed = STATE_ACTIVE =>
    \A i \in 1..Len(conn_tracker) :
      conn_tracker[i] = IF i % 2 = 1 THEN "quiesce" ELSE "unquiesce"

\* C24: the calls on the connection tracker are quiesce, unquiesce,
\* quiesce, ... in that order, starting with quiesce; a process_input call
\* that calls quiesce_connections was entered outside STATE_QUIESCING_CONNS
\* and has set _state to it, and one that calls unquiesce_connections was
\* entered in STATE_QUIESCING_CONNS with INPUT_UNQUIESCE
C24_TrackerCallsAlternate ==
  /\ \A i \in 1..Len(conn_tracker) :
       conn_tracker[i] = IF i % 2 = 1 THEN "quiesce" ELSE "unquiesce"
  /\ Times("quiesce_connections") > 0 =>
       /\ entered.state # STATE_QUIESCING_CONNS
       /\ qm_state = STATE_QUIESCING_CONNS
  /\ Times("unquiesce_connections") > 0 =>
       EnteredWith(STATE_QUIESCING_CONNS, INPUT_UNQUIESCE)

====
